---- MODULE Spec2Model ----
(***************************************************************************)
(* Model of the option pricer (src/prices.py) and the iron-condor strategy *)
(* builder (src/ironCondor.py).                                            *)
(*                                                                         *)
(* Numbers are fixed-point: an integer n stands for the real n / SCALE.    *)
(* The iron-condor inputs are taken from grids on which every product and  *)
(* square root of the code is exact, so that the integer arithmetic here   *)
(* and the double arithmetic of the code give the same values.  The        *)
(* pricer computes at the finer resolution 1 / FINE and returns its prices *)
(* and Greeks rounded to 1 / SCALE; the at-expiry branch is exact.         *)
(***************************************************************************)
EXTENDS Integers

SCALE == 10 ^ 3

(***************************************************************************)
(* Bounds of the input grids.                                              *)
(***************************************************************************)
MaxSpot == 2
MaxStrike == 3
MaxVol == 2
MaxTime == 2
MaxWidth == 2
MaxRate == 1
MaxYield == 1
MaxCredit == 2
MaxTerminal == 64

SpotValues == {i * 50 * SCALE : i \in -1..MaxSpot}
StrikeValues == {i * 40 * SCALE : i \in -1..MaxStrike}
VolValues == {i * (SCALE \div 4) : i \in -1..MaxVol}
TimeValues == {-(SCALE \div 4)} \cup {i * i * (SCALE \div 4) : i \in 0..MaxTime}
WidthValues == {i * ((5 * SCALE) \div 2) : i \in -1..MaxWidth}
RateValues == {i * (SCALE \div 20) : i \in 0..MaxRate}
YieldValues == {i * (SCALE \div 50) : i \in 0..MaxYield}
CreditValues == {i * SCALE : i \in 0..MaxCredit}
TerminalValues == {i * ((5 * SCALE) \div 2) : i \in -2..MaxTerminal}
KindValues == {"call", "put", "Call", "PUT", "straddle"}

(***************************************************************************)
(* Fixed-point arithmetic (Python float operators * and /).                *)
(***************************************************************************)
Max(a, b) == IF a >= b THEN a ELSE b

Abs(a) == IF a >= 0 THEN a ELSE -a

Sign(a) == IF a > 0 THEN 1 ELSE IF a < 0 THEN -1 ELSE 0

\* n / d rounded to the nearest integer, halves away from zero (d # 0)
Round(n, d) == Sign(n) * Sign(d) * ((Abs(n) + (Abs(d) \div 2)) \div Abs(d))

Mul(a, b) == Round(a * b, SCALE)

\* outcome of a call: a returned value or a raised exception
Return(v) == [status |-> "ok", value |-> v]

Raise(e) == [status |-> e]

(***************************************************************************)
(* math.sqrt on n >= 0: the integer square root of n * SCALE, exact on the *)
(* time grid.                                                              *)
(***************************************************************************)
RECURSIVE SqrtSearch(_, _, _)
SqrtSearch(n, lo, hi) ==
    IF lo >= hi THEN lo
    ELSE LET mid == (lo + hi + 1) \div 2
         IN  IF mid * mid <= n THEN SqrtSearch(n, mid, hi)
             ELSE SqrtSearch(n, lo, mid - 1)

Sqrt(x) == SqrtSearch(x * SCALE, 0, 40 * SCALE)

(***************************************************************************)
(* src/ironCondor.py                                                       *)
(***************************************************************************)
one_sigma_move(S, sigma, T) == Mul(Mul(S, sigma), Sqrt(T))

short_put(S, move) == S - move

\* sign slip: the long put placed above the short put
long_put_Above(sp, width) == sp + width

long_put(sp, width) == sp - width

\* sign slip: the short call placed below the spot
short_call_Below(S, move) == S - move

short_call(S, move) == S + move

long_call(sc, width) == sc + width

iron_condor(S, sigma, T, r, width) ==
    IF T < 0 THEN Raise("ValueError")
    ELSE LET move == one_sigma_move(S, sigma, T)
             sp == short_put(S, move)
             lp == long_put(sp, width)
             sc == short_call(S, move)
             lc == long_call(sc, width)
         IN  Return([long_put |-> lp, short_put |-> sp,
                     short_call |-> sc, long_call |-> lc])

\* operands of the short put leg swapped
PutSpread_Swapped(S_T, sp, lp) == - Max(0, S_T - sp) + Max(0, lp - S_T)

PutSpread(S_T, sp, lp) == - Max(0, sp - S_T) + Max(0, lp - S_T)

CallSpread(S_T, sc, lc) == - Max(0, S_T - sc) + Max(0, S_T - lc)

iron_condor_payoff(S_T, strikes, credit) ==
    credit + PutSpread(S_T, strikes.short_put, strikes.long_put)
           + CallSpread(S_T, strikes.short_call, strikes.long_call)

(***************************************************************************)
(* Float arithmetic of src/prices.py.  The pricer computes at the          *)
(* resolution 1 / FINE; the library functions carry two more digits        *)
(* (1 / GUARD) inside and agree with math.sqrt, math.exp, math.log and     *)
(* math.erf to within one unit of 1 / FINE.  Products are formed exactly   *)
(* from the halves of their factors and quotients digit by digit, so that  *)
(* no intermediate value leaves the integer range.                         *)
(***************************************************************************)
FINE == 10 ^ 6

GUARD == 10 ^ 8

\* a * b / (B * B) rounded to the nearest integer, exactly, for a, b >= 0:
\* a and b are split at B and the four partial products are added by weight
TimesOver(a, b, B) ==
    LET X == (a \div B) * (b % B)
        Y == (a % B) * (b \div B)
        low == ((X % B) + (Y % B)) * B + (a % B) * (b % B)
    IN  (a \div B) * (b \div B) + (X \div B) + (Y \div B)
          + ((low + ((B * B) \div 2)) \div (B * B))

\* float *: a * b at the unit B * B, halves away from zero
MulAt(a, b, B) == Sign(a) * Sign(b) * TimesOver(Abs(a), Abs(b), B)

\* r * 10^n / b rounded to the nearest integer for 0 <= r < b, one decimal
\* digit of the quotient at a time (10 r is formed as 2 * (5 r mod b))
RECURSIVE Frac(_, _, _)
Frac(r, b, n) ==
    IF n = 0 THEN (IF 2 * r >= b THEN 1 ELSE 0)
    ELSE LET five == 5 * r
             two == 2 * (five % b)
         IN  (2 * (five \div b) + (two \div b)) * 10 ^ (n - 1)
               + Frac(two % b, b, n - 1)

\* float /: a * 10^n / b rounded to the nearest integer, b # 0
DivAt(a, b, n) ==
    Sign(a) * Sign(b)
      * ((Abs(a) \div Abs(b)) * 10 ^ n + Frac(Abs(a) % Abs(b), Abs(b), n))

MulF(a, b) == MulAt(a, b, 10 ^ 3)

DivF(a, b) == DivAt(a, b, 6)

MulG(a, b) == MulAt(a, b, 10 ^ 4)

DivG(a, b) == DivAt(a, b, 8)

ToFine(x) == x * (FINE \div SCALE)

FromFine(x) == Round(x, FINE \div SCALE)

ToGuard(x) == x * (GUARD \div FINE)

FromGuard(x) == Round(x, GUARD \div FINE)

\* r * r + c <= y * B * B, exactly
SquareAtMost(r, c, y, B) ==
    LET X == 2 * (r \div B) * (r % B)
        low == (X % B) * B + (r % B) * (r % B) + c
        high == (r \div B) * (r \div B) + (X \div B) + (low \div (B * B))
    IN  high < y \/ (high = y /\ low % (B * B) = 0)

\* Heron's iteration r -> (r + x / r) / 2 at the unit 10^n
RECURSIVE Heron(_, _, _, _)
Heron(x, r, n, steps) ==
    IF steps = 0 \/ r = 0 THEN r
    ELSE Heron(x, (r + DivAt(x, r, n)) \div 2, n, steps - 1)

\* math.sqrt: the integer nearest to the square root of x * B * B for
\* x >= 0 and B = 10^h, from the integer square root of x
SqrtAt(x, B, h) ==
    LET r == Heron(x, SqrtSearch(x, 0, 46340) * B, 2 * h, 6)
        floor == IF ~SquareAtMost(r, 0, x, B) THEN r - 1
                 ELSE IF SquareAtMost(r + 1, 0, x, B) THEN r + 1
                 ELSE r
    IN  IF SquareAtMost(floor, floor + 1, x, B) THEN floor + 1 ELSE floor

SqrtF(x) == SqrtAt(x, 10 ^ 3, 3)

SqrtG(x) == SqrtAt(x, 10 ^ 4, 4)

\* sum of the terms x^k / k! from term k on, |x| <= 1 at GUARD
RECURSIVE ExpTerms(_, _, _, _)
ExpTerms(x, k, term, acc) ==
    IF term = 0 \/ k > 20 THEN acc
    ELSE ExpTerms(x, k + 1, Round(MulG(term, x), k), acc + term)

\* b^n at GUARD by repeated squaring
RECURSIVE PowG(_, _)
PowG(b, n) ==
    IF n = 0 THEN GUARD
    ELSE IF n % 2 = 1 THEN MulG(PowG(b, n - 1), b)
    ELSE LET half == PowG(b, n \div 2) IN MulG(half, half)

\* e^x at GUARD for -20 <= x <= 3: e^n or e^-n times the series of the fraction
ExpG(x) ==
    LET n == Abs(x) \div GUARD
        f == Abs(x) % GUARD
    IN  IF x <= 0 THEN MulG(PowG(36787944, n), ExpTerms(-f, 1, GUARD, 0))
        ELSE MulG(PowG(271828183, n), ExpTerms(f, 1, GUARD, 0))

\* math.exp, x <= 3
Exp(x) ==
    IF x < -20 * FINE THEN 0
    ELSE FromGuard(ExpG(ToGuard(x)))

\* sum of the terms z^k / k of atanh z from odd k on
RECURSIVE AtanhTerms(_, _, _, _)
AtanhTerms(z2, k, power, acc) ==
    IF power = 0 \/ k > 41 THEN acc
    ELSE AtanhTerms(z2, k + 2, MulG(power, z2), acc + Round(power, k))

\* ln y at GUARD for 0 < y < 21: ln y = k ln 2 + 2 atanh((m - 1) / (m + 1)),
\* y = m * 2^k with m between sqrt(1/2) and sqrt(2)
RECURSIVE LnG(_)
LnG(y) ==
    IF y >= 141421356 THEN 69314718 + LnG(Round(y, 2))
    ELSE IF y < 70710678 THEN LnG(2 * y) - 69314718
    ELSE LET z == DivG(y - GUARD, y + GUARD)
         IN  2 * AtanhTerms(MulG(z, z), 1, z, 0)

RECURSIVE LnWide(_)
LnWide(y) ==
    IF y > 20 * FINE THEN 69314718 + LnWide(Round(y, 2))
    ELSE LnG(ToGuard(y))

\* math.log, y > 0
Ln(y) == FromGuard(LnWide(y))

\* erf x at GUARD for 0 <= x <= 4.5:
\* 1 - (a1 t + ... + a5 t^5) * e^(-x^2), t = 1 / (1 + p x)
ErfG(x) ==
    LET t == DivG(GUARD, GUARD + MulG(32759110, x))
        poly == MulG(t, 25482959 + MulG(t, -28449674 + MulG(t, 142141374
                       + MulG(t, -145315203 + MulG(t, 106140543)))))
    IN  GUARD - MulG(poly, ExpG(-MulG(x, x)))

\* erf at GUARD, saturated beyond 4.5
ErfSat(x) ==
    IF Abs(x) > 450000000 THEN Sign(x) * GUARD
    ELSE Sign(x) * ErfG(Abs(x))

\* math.erf
Erf(x) ==
    IF Abs(x) > 20 * FINE THEN Sign(x) * FINE
    ELSE FromGuard(ErfSat(ToGuard(x)))

(***************************************************************************)
(* src/prices.py                                                           *)
(***************************************************************************)
norm_cdf(x) ==
    IF x > 6 * FINE THEN FINE
    ELSE IF x < -6 * FINE THEN 0
    ELSE FromGuard(MulG(GUARD \div 2,
                        GUARD + ErfSat(DivG(ToGuard(x), SqrtG(2 * GUARD)))))

norm_pdf(x) ==
    LET a == Abs(x)
        half_square ==
            IF 2 * a <= 9 * FINE
            THEN MulG(GUARD \div 2, MulG(ToGuard(a), ToGuard(a)))
            ELSE ToGuard(MulF(FINE \div 2, MulF(a, a)))
    IN  IF 5 * a > 31 * FINE THEN 0
        ELSE FromGuard(DivG(ExpG(-half_square),
                            SqrtG(MulG(2 * GUARD, 314159265))))

\* str.lower() on the option kinds
Lower(s) ==
    CASE s = "Call" -> "call"
      [] s = "PUT" -> "put"
      [] OTHER -> s

Greeks(price, delta, gamma, vega, theta, rho) ==
    [price |-> price, delta |-> delta, gamma |-> gamma,
     vega |-> vega, theta |-> theta, rho |-> rho]

\* the returned dict at the resolution 1 / SCALE
Rounded(g) ==
    Greeks(FromFine(g.price), FromFine(g.delta), FromFine(g.gamma),
           FromFine(g.vega), FromFine(g.theta), FromFine(g.rho))

\* intrinsic value without the floor at zero
AtExpiry_NoFloor(S, K, kind) ==
    Greeks(IF kind = "call" THEN S - K ELSE K - S, 0, 0, 0, 0, 0)

\* T <= 0: undiscounted intrinsic value, Greeks zero
AtExpiry(S, K, kind) ==
    LET price == IF kind = "call" THEN Max(0, S - K) ELSE Max(0, K - S)
    IN  Greeks(price, 0, 0, 0, 0, 0)

\* the discount factor exp(-r*T) left out
ZeroVol_Undiscounted(S, K, T, r, kind, q) ==
    LET forward == MulF(ToFine(S), Exp(MulF(-ToFine(q), ToFine(T))))
    IN  Rounded(Greeks(IF kind = "call" THEN Max(0, forward - ToFine(K))
                       ELSE Max(0, ToFine(K) - forward),
                       0, 0, 0, 0, 0))

\* sigma <= 0: discounted intrinsic value of the forward, Greeks zero
ZeroVol(S, K, T, r, kind, q) ==
    LET forward == MulF(ToFine(S), Exp(MulF(-ToFine(q), ToFine(T))))
        discounted_payoff ==
            MulF(Exp(MulF(-ToFine(r), ToFine(T))),
                 IF kind = "call" THEN Max(0, forward - ToFine(K))
                 ELSE Max(0, ToFine(K) - forward))
    IN  Rounded(Greeks(discounted_payoff, 0, 0, 0, 0, 0))

\* T > 0, sigma > 0, S / K > 0
General(S0, K0, T0, r0, sigma0, kind, q0) ==
    LET S == ToFine(S0)
        K == ToFine(K0)
        T == ToFine(T0)
        r == ToFine(r0)
        sigma == ToFine(sigma0)
        q == ToFine(q0)
        sqrtT == SqrtF(T)
        d1 == DivF(Ln(DivF(S, K))
                     + MulF(r - q + MulF(MulF(FINE \div 2, sigma), sigma), T),
                   MulF(sigma, sqrtT))
        d2 == d1 - MulF(sigma, sqrtT)
        eq == Exp(MulF(-q, T))
        er == Exp(MulF(-r, T))
        Nd1 == norm_cdf(d1)
        Nd2 == norm_cdf(d2)
        Nmd1 == norm_cdf(-d1)
        Nmd2 == norm_cdf(-d2)
        pdf == norm_pdf(d1)
        decay == - DivF(MulF(MulF(MulF(S, sigma), eq), pdf), 2 * sqrtT)
        gamma == DivF(MulF(eq, pdf), MulF(MulF(S, sigma), sqrtT))
        vega == MulF(MulF(MulF(S, eq), pdf), sqrtT)
    IN  IF kind = "call"
        THEN Rounded(Greeks(
                 MulF(MulF(S, eq), Nd1) - MulF(MulF(K, er), Nd2),
                 MulF(eq, Nd1),
                 gamma, vega,
                 decay - MulF(MulF(MulF(r, K), er), Nd2)
                       + MulF(MulF(MulF(q, S), eq), Nd1),
                 MulF(MulF(MulF(K, T), er), Nd2)))
        ELSE Rounded(Greeks(
                 MulF(MulF(K, er), Nmd2) - MulF(MulF(S, eq), Nmd1),
                 MulF(eq, Nd1 - FINE),
                 gamma, vega,
                 decay + MulF(MulF(MulF(r, K), er), Nmd2)
                       - MulF(MulF(MulF(q, S), eq), Nmd1),
                 MulF(MulF(MulF(-K, T), er), Nmd2)))

black_scholes(S, K, T, r, sigma, option_type, q) ==
    LET kind == Lower(option_type)
    IN  IF T <= 0 THEN Return(AtExpiry(S, K, kind))
        ELSE IF sigma <= 0 THEN Return(ZeroVol(S, K, T, r, kind, q))
        ELSE IF K = 0 THEN Raise("ZeroDivisionError")
        ELSE IF S = 0 \/ Sign(S) # Sign(K) THEN Raise("ValueError")
        ELSE Return(General(S, K, T, r, sigma, kind, q))

(***************************************************************************)
(* The callers: a strategy session builds a condor and sweeps its payoff   *)
(* over terminal prices (src/ironCondor.py:71-79); a pricing session       *)
(* prices one option (src/prices.py:96-97).                                *)
(***************************************************************************)
VARIABLES pc, condor, pay, bs

vars == <<pc, condor, pay, bs>>

NoCall == [status |-> "none"]

Init ==
    /\ pc = "idle"
    /\ condor = [out |-> NoCall]
    /\ pay = [out |-> NoCall]
    /\ bs = [out |-> NoCall]

BuildCondor ==
    /\ pc = "idle"
    /\ \E S \in SpotValues, sigma \in VolValues, T \in TimeValues,
          r \in RateValues, width \in WidthValues :
          condor' = [S |-> S, sigma |-> sigma, T |-> T, r |-> r, width |-> width,
                     out |-> iron_condor(S, sigma, T, r, width)]
    /\ pc' = "built"
    /\ UNCHANGED <<pay, bs>>

Payoff ==
    /\ pc = "built"
    /\ condor.out.status = "ok"
    /\ \E S_T \in TerminalValues, credit \in CreditValues :
          pay' = [S_T |-> S_T, credit |-> credit,
                  out |-> Return(iron_condor_payoff(S_T, condor.out.value, credit))]
    /\ pc' = "paid"
    /\ UNCHANGED <<condor, bs>>

Price ==
    /\ pc = "idle"
    /\ \E S \in SpotValues, K \in StrikeValues, T \in TimeValues, r \in RateValues,
          sigma \in VolValues, option_type \in KindValues, q \in YieldValues :
          bs' = [S |-> S, K |-> K, T |-> T, r |-> r, sigma |-> sigma,
                 option_type |-> option_type, q |-> q,
                 out |-> black_scholes(S, K, T, r, sigma, option_type, q)]
    /\ pc' = "priced"
    /\ UNCHANGED <<condor, pay>>

Next == BuildCondor \/ Payoff \/ Price

Spec == Init /\ [][Next]_vars

(***************************************************************************)
(* Properties.                                                             *)
(***************************************************************************)
Strikes == condor.out.value

\* a call that raised: no result was returned
Failed(out) == out.status \notin {"ok", "none"}

CondorInputsValid ==
    condor.S > 0 /\ condor.sigma >= 0 /\ condor.T >= 0 /\ condor.width > 0

KindValid == Lower(bs.option_type) \in {"call", "put"}

GreeksZero ==
    /\ bs.out.value.delta = 0
    /\ bs.out.value.gamma = 0
    /\ bs.out.value.vega = 0
    /\ bs.out.value.theta = 0
    /\ bs.out.value.rho = 0

\* C1: for strikes returned by iron_condor with width > 0, every terminal
\* price and every credit give credit - width <= payoff <= credit, where
\* width = long_call - short_call = short_put - long_put.
PayoffBound ==
    (pc = "paid" /\ condor.width > 0) =>
        LET w == Strikes.long_call - Strikes.short_call
        IN  /\ w = Strikes.short_put - Strikes.long_put
            /\ pay.credit - w <= pay.out.value
            /\ pay.out.value <= pay.credit

\* C2: whenever move = S*sigma*sqrt(T) > 0 and width > 0, iron_condor
\* returns long_put < short_put < short_call < long_call.
CondorOrdering ==
    (pc = "built" /\ condor.T >= 0 /\ condor.width > 0
       /\ one_sigma_move(condor.S, condor.sigma, condor.T) > 0) =>
        /\ condor.out.status = "ok"
        /\ Strikes.long_put < Strikes.short_put
        /\ Strikes.short_put < Strikes.short_call
        /\ Strikes.short_call < Strikes.long_call

CondorOrderingWitness ==
    /\ pc = "built"
    /\ condor.out.status = "ok"
    /\ condor.S > 0 /\ condor.sigma > 0 /\ condor.T > 0
    /\ condor.width > 0
    /\ one_sigma_move(condor.S, condor.sigma, condor.T) > 0
    /\ Strikes.long_put < Strikes.short_put
    /\ Strikes.short_call < Strikes.long_call

\* C3: black_scholes raises, returning no Greeks, whenever S < 0, K <= 0,
\* T < 0, sigma < 0 or the option kind is neither call nor put.
PriceRejectsInvalid ==
    (pc = "priced" /\ (bs.S < 0 \/ bs.K <= 0 \/ bs.T < 0 \/ bs.sigma < 0
                         \/ ~KindValid)) =>
        Failed(bs.out)

\* C4: iron_condor raises, returning no strikes, whenever one of S > 0,
\* sigma >= 0, T >= 0, width > 0 is violated.
CondorRejectsInvalid ==
    (pc = "built" /\ ~CondorInputsValid) => Failed(condor.out)

\* C5: at T = 0, for valid S, K, sigma and kind, black_scholes returns the
\* undiscounted intrinsic value max(0, S-K) (call) or max(0, K-S) (put) as
\* the price, and delta, gamma, vega, theta and rho are all 0.
GreeksAtExpiry ==
    (pc = "priced" /\ bs.S >= 0 /\ bs.K > 0 /\ bs.sigma >= 0 /\ KindValid
       /\ bs.T = 0) =>
        /\ bs.out.status = "ok"
        /\ bs.out.value.price =
              IF Lower(bs.option_type) = "call" THEN Max(0, bs.S - bs.K)
              ELSE Max(0, bs.K - bs.S)
        /\ GreeksZero

GreeksAtExpiryWitness ==
    /\ pc = "priced"
    /\ bs.T = 0 /\ bs.S > 0 /\ bs.K > bs.S /\ bs.sigma > 0
    /\ bs.option_type = "put"
    /\ bs.out.status = "ok"
    /\ bs.out.value.price = bs.K - bs.S

\* C6: at sigma = 0, for valid S, K, T and kind, black_scholes does not raise
\* and returns price = exp(-r*T) * max(0, S*exp(-q*T) - K) for a call,
\* exp(-r*T) * max(0, K - S*exp(-q*T)) for a put, with all Greeks 0.
ZeroVolDeterminism ==
    (pc = "priced" /\ bs.S >= 0 /\ bs.K > 0 /\ bs.T >= 0 /\ KindValid
       /\ bs.sigma = 0) =>
        LET F == MulF(ToFine(bs.S), Exp(MulF(-ToFine(bs.q), ToFine(bs.T))))
            D == Exp(MulF(-ToFine(bs.r), ToFine(bs.T)))
        IN  /\ bs.out.status = "ok"
            /\ bs.out.value.price =
                  IF Lower(bs.option_type) = "call"
                  THEN FromFine(MulF(D, Max(0, F - ToFine(bs.K))))
                  ELSE FromFine(MulF(D, Max(0, ToFine(bs.K) - F)))
            /\ GreeksZero

ZeroVolWitness ==
    /\ pc = "priced"
    /\ bs.sigma = 0 /\ bs.T > 0 /\ bs.r > 0 /\ bs.q > 0 /\ bs.K > 0
    /\ bs.option_type = "call"
    /\ bs.out.status = "ok"
    /\ bs.out.value.price > 0
    /\ bs.out.value.price < bs.S - bs.K

\* C7: for S > 0 and width > 0, when sigma = 0 or T = 0 (T not negative),
\* iron_condor does not raise and returns short_put = short_call = S,
\* long_put = S - width and long_call = S + width.
DegenerateCondor ==
    (pc = "built" /\ condor.S > 0 /\ condor.width > 0 /\ condor.T >= 0
       /\ (condor.sigma = 0 \/ condor.T = 0)) =>
        /\ condor.out.status = "ok"
        /\ Strikes.short_put = condor.S
        /\ Strikes.short_call = condor.S
        /\ Strikes.long_put = condor.S - condor.width
        /\ Strikes.long_call = condor.S + condor.width

DegenerateCondorWitness ==
    /\ pc = "built"
    /\ condor.S > 0 /\ condor.width > 0
    /\ condor.sigma = 0 /\ condor.T > 0
    /\ condor.out.status = "ok"
    /\ Strikes.short_put = Strikes.short_call

\* C9: for strikes returned by iron_condor on valid inputs and any credit,
\* a terminal price with short_put <= terminalPrice <= short_call gives a
\* payoff exactly equal to credit.
InsideShortStrikes ==
    (pc = "paid" /\ CondorInputsValid
       /\ Strikes.short_put <= pay.S_T /\ pay.S_T <= Strikes.short_call) =>
        pay.out.value = pay.credit

InsideShortStrikesWitness ==
    /\ pc = "paid"
    /\ CondorInputsValid
    /\ Strikes.short_put < pay.S_T /\ pay.S_T < Strikes.short_call
    /\ pay.credit > 0
    /\ pay.out.value = pay.credit

\* C10: for strikes returned by iron_condor with width > 0 and any credit, a
\* terminal price at or below long_put, or at or above long_call, gives a
\* payoff exactly equal to credit - width.
WingFloor ==
    (pc = "paid" /\ condor.width > 0
       /\ (pay.S_T <= Strikes.long_put \/ pay.S_T >= Strikes.long_call)) =>
        pay.out.value = pay.credit - condor.width

====
